---- MODULE Spec2Model ----
(***************************************************************************)
(* A model of tickrs (src/main.rs): the counter/gauge store behind a       *)
(* shared sqlx connection pool, the store calls of Counter and Gauge, and  *)
(* the HTTP handlers that wrap them.                                       *)
(*                                                                         *)
(* Every handler is an async function; it can be suspended only at an      *)
(* .await, so each action below is the code between two awaits.  A SQL     *)
(* statement is one action: SQLite executes a statement atomically.        *)
(***************************************************************************)
EXTENDS Integers, Sequences, FiniteSets, TLC

(* ---------------------------------------------------------------- bounds *)

\* Requests in flight at once (worker tasks of the HTTP server).
NProc == 2

\* Requests started in one behaviour.
MaxCalls == 2

\* Connections of the pool.  SqlitePool::connect (main.rs:40) takes sqlx's
\* default max_connections; the model keeps the pool small enough for the
\* requests in flight to exhaust it.
PoolSize == 2

(* ------------------------------------------------------ program constants *)

\* nanoid!(12, ...): the length of a generated identifier.
TokenLen == 12

\* id.len() < 255
MaxIdLen == 255

\* str::is_ascii: every byte is below 0x80
AsciiLimit == 128

Procs == 1..NProc

\* A string is its sequence of UTF-8 bytes.
Token(b) == [i \in 1..TokenLen |-> b]

\* What nanoid!(12, SAFE) can return: one token stands for the alphabet's (the
\* generator is not checked against the store, so it can return one in use).
GenIds == {Token(97)}

\* The values of the rows the database file holds when the server starts.
InitValues == {0, 7}

\* The {id} segment of a request path: the tokens, and a non-ASCII one.
PathIds == GenIds \cup {<<195, 169>>}

\* The {ext} segment of a request path.
Exts == {"txt", "png", "zip"}

Kinds == {"c", "g"}

VARIABLES
    c,        \* table c: the Counter rows [id, nano_id, value, updated_at]
    g,        \* table g: the Gauge rows
    pool,     \* idle connections of the pool
    pc,       \* pc[p]: the await the request of task p is suspended at
    req,      \* req[p]: the request task p is serving
    conns,    \* conns[p]: PoolConnection guards alive in p's frames
    last,     \* the request that has just completed, with its response
    expect,   \* expect[k][id]: the value inserted plus the deltas of the Ok updates
    seen,     \* seen[k][id]: the value a *_or_create call returned most recently
    incs,     \* incs[k][id]: Ok increments, while no decrement was ever called
    started,  \* requests started so far
    now,      \* the database's clock: the time of the latest write
    arg,      \* the input of a call of valid_id or as_format made on its own
    ret       \* what that call returned

hist == <<expect, seen, incs>>

\* The variables of the calls of the pure functions made on their own.
pure == <<arg, ret>>

vars == <<c, g, pool, pc, req, conns, last, expect, seen, incs, started, now, arg, ret>>

(* ------------------------------------------------------------ validation *)

valid_id_any(id) == TRUE

valid_id_le(id) ==
    /\ id # <<>>
    /\ Len(id) <= MaxIdLen
    /\ \A i \in 1..Len(id) : id[i] < AsciiLimit

\* CounterLike::valid_id
valid_id(id) ==
    /\ id # <<>>
    /\ Len(id) < MaxIdLen
    /\ \A i \in 1..Len(id) : id[i] < AsciiLimit

(* ------------------------------------------------------------- rendering *)

RECURSIVE Digits(_)
Digits(n) == IF n < 10 THEN <<48 + n>> ELSE Digits(n \div 10) \o <<48 + (n % 10)>>

\* format!("{:?}", i) / format!("{}", i) / serde_json of an i64
Decimal(n) == IF n < 0 THEN <<45>> \o Digits(-n) ELSE Digits(n)

NoBody == <<>>

Response(status, ctype, body, location) ==
    [status |-> status, ctype |-> ctype, body |-> body, location |-> location]

\* HttpResponse::BadRequest().body("") and its siblings
Empty(status) == Response(status, "", NoBody, <<>>)

\* include_bytes!(...): a static asset, named by its file
Asset(name) == <<name>>

\* "/c/" or "/g/"
Prefix(kind) == IF kind = "c" THEN <<47, 99, 47>> ELSE <<47, 103, 47>>

as_format_default(value, ext) ==
    CASE ext = "png"  -> Response(200, "image/png", Asset("out.png"), <<>>)
      [] ext = "jpg"  -> Response(200, "image/png", Asset("out.jpg"), <<>>)
      [] ext = "gif"  -> Response(200, "image/gif", Asset("out.gif"), <<>>)
      [] ext = "svg"  -> Response(200, "image/svg+xml; charset=utf-8", Asset("svg"), <<>>)
      [] ext = "json" -> Response(200, "application/json", Decimal(value), <<>>)
      [] OTHER        -> Response(200, "text/plain; charset=utf-8", Decimal(value), <<>>)

\* CounterLike::as_format on an entity with this value
as_format(value, ext) ==
    CASE ext = "png"  -> Response(200, "image/png", Asset("out.png"), <<>>)
      [] ext = "jpg"  -> Response(200, "image/png", Asset("out.jpg"), <<>>)
      [] ext = "gif"  -> Response(200, "image/gif", Asset("out.gif"), <<>>)
      [] ext = "svg"  -> Response(200, "image/svg+xml; charset=utf-8", Asset("svg"), <<>>)
      [] ext = "json" -> Response(200, "application/json", Decimal(value), <<>>)
      [] ext = "txt"  -> Response(200, "text/plain; charset=utf-8", Decimal(value), <<>>)
      [] OTHER        -> Empty(404)

\* "# TYPE {id} counter\n{id}_count {value}"
as_openmetrics(kind, id, value) ==
    Response(200, "text/plain; version=0.0.4; charset=utf-8",
             <<35, 32, 84, 89, 80, 69, 32>> \o id
             \o (IF kind = "c" THEN <<32, 99, 111, 117, 110, 116, 101, 114, 10>>
                               ELSE <<32, 103, 97, 117, 103, 101, 10>>)
             \o id \o <<95, 99, 111, 117, 110, 116, 32>> \o Decimal(value),
             <<>>)

\* HttpResponse::SeeOther() with a Location header and a plain-text body
SeeOther(kind, id, body) ==
    Response(303, "text/plain; charset=utf-8", body, Prefix(kind) \o id)

(* ----------------------------------------------------------------- store *)

TableOne(kind) == c

\* FROM c / INTO c / UPDATE c in impl CounterLike for Counter and impl Counter,
\* g in those of Gauge
Table(kind) == IF kind = "c" THEN c ELSE g

Rows(tbl, id) == {r \in tbl : r.nano_id = id}

HasRow(kind, id) == Rows(Table(kind), id) # {}

\* The row a single-row fetch returns: the first in rowid order.
First(rows) == CHOOSE r \in rows : \A s \in rows : r.id <= s.id

SetValueKeep(value, delta) == value

\* SET value = value + 1 / SET value = value - 1
SetValue(value, delta) == value + delta

\* The time a statement that writes is executed at.
CurrentTimestamp == now + 1

OnUpdateKeep(r) == r.updated_at

\* The schema's rule for updated_at when a row is updated: the time of the
\* write (the UPDATE statements of main.rs do not name the column).
OnUpdate(r) == CurrentTimestamp

\* The schema's default for updated_at when a row is inserted (the INSERT
\* statements of main.rs do not name the column).
OnInsert == CurrentTimestamp

\* UPDATE t SET value = value + delta WHERE nano_id = ?1
UpdateWhere(tbl, id, delta) ==
    {IF r.nano_id = id
     THEN [r EXCEPT !.value = SetValue(r.value, delta), !.updated_at = OnUpdate(r)]
     ELSE r : r \in tbl}

ReturningOld(tbl, id, delta) ==
    IF Rows(tbl, id) = {} THEN [some |-> FALSE, value |-> 0]
    ELSE [some |-> TRUE, value |-> First(Rows(tbl, id)).value]

\* ... RETURNING value, read with fetch_optional: the updated row's value
Returning(tbl, id, delta) ==
    IF Rows(tbl, id) = {} THEN [some |-> FALSE, value |-> 0]
    ELSE [some |-> TRUE, value |-> First(Rows(UpdateWhere(tbl, id, delta), id)).value]

NoConstraint(tbl, id) == FALSE

\* The UNIQUE constraint on nano_id of the tables' schema.
UniqueViolation(tbl, id) == Rows(tbl, id) # {}

\* INSERT INTO t ( nano_id, value ) VALUES ( ?1, ?2 ): the row gets the next rowid
InsertInto(tbl, id, value) ==
    tbl \cup {[id |-> Cardinality(tbl) + 1, nano_id |-> id, value |-> value,
                updated_at |-> OnInsert]}

DeltaSwapped(fn) == IF fn = "dec" THEN 1 ELSE -1

\* The delta of the UPDATE in increment_or_create / decrement_or_create
Delta(fn) == IF fn = "dec" THEN -1 ELSE 1

CreateValueDelta(fn) == Delta(fn)

CreateValueZero(fn) == 0

\* The value create_with_id_and_value is called with: 0 by create, 1 by
\* increment_or_create and by decrement_or_create
CreateValue(fn) == IF fn = "create" THEN 0 ELSE 1

(* ------------------------------------------------------------------ pool *)

AcquireStates == {"upsert_acquire", "create_acquire", "get_acquire", "agg_acquire"}

\* Task p holds a connection while it waits for another one.
Nested(pcs, cs, p) == pcs[p] = "create_acquire" /\ cs[p] > 0

ExhaustedNever == FALSE

\* No connection is idle and every task that holds one waits for another:
\* no connection can come back before an acquire times out.
Exhausted ==
    /\ pool = 0
    /\ \A q \in Procs : conns[q] > 0 => pc[q] \in AcquireStates

DropOne(n) == IF n > 0 THEN 1 ELSE 0

\* The PoolConnection guards a returning call drops: all of its frames'.
Dropped(n) == n

(* -------------------------------------------------------------- requests *)

NoReq == [kind |-> "", fn |-> "", id |-> <<>>,
          acq |-> 0, upd |-> 0, ins |-> 0, sel |-> 0,
          existed |-> FALSE, shared |-> FALSE, raced |-> FALSE]

NoResp == Empty(0)

\* A store call's result: Ok(val), Some(val), or an error / None.
Ok(v) == [ok |-> TRUE, val |-> v, err |-> ""]
ErrDefault(e) == [ok |-> TRUE, val |-> 0, err |-> e]

Err(e) == [ok |-> FALSE, val |-> 0, err |-> e]

Mutating(r) == r.fn \in {"inc", "dec", "create"}

\* The history flags of the requests in flight, brought up to date.
Track(pcs, cs, rs) ==
    [q \in Procs |->
        IF pcs[q] = "idle" THEN rs[q]
        ELSE [rs[q] EXCEPT
                !.raced  = @ \/ \E r \in Procs \ {q} : Nested(pcs, cs, r),
                !.shared = @ \/ \E r \in Procs \ {q} :
                                  /\ pcs[r] # "idle"
                                  /\ Mutating(rs[r]) /\ Mutating(rs[q])
                                  /\ rs[r].kind = rs[q].kind
                                  /\ rs[r].id = rs[q].id]]

FirstState(fn) ==
    CASE fn \in {"inc", "dec"}       -> "upsert_acquire"
      [] fn = "create"               -> "create_acquire"
      [] fn = "get"                  -> "get_acquire"
      [] fn \in {"total", "highest"} -> "agg_acquire"

NextState(s) ==
    CASE s = "upsert_acquire" -> "upsert_update"
      [] s = "create_acquire" -> "create_insert"
      [] s = "get_acquire"    -> "get_select"
      [] s = "agg_acquire"    -> "agg_select"

\* pool.acquire() takes an idle connection in the poll that calls it, and
\* waits when none is idle.
Taken == IF pool > 0 THEN 1 ELSE 0
Await(s) == IF pool > 0 THEN NextState(s) ELSE s

SwallowError(o) == IF o.ok THEN o ELSE Ok(1)

\* The ? after create_with_id_and_value(...).await in the *_or_create calls
Propagate(o) == o

ExtHandlers == {"get_counter_ext", "get_gauge_ext", "get_plus_counter_ext",
                "get_plus_gauge_ext", "get_minus_gauge_ext"}

\* The handlers that make a store call: the routes main registers.
Handlers(kind, fn) ==
    CASE kind = "c" /\ fn = "create" -> {"new_counter"}
      [] kind = "c" /\ fn = "get"    -> {"get_counter", "get_counter_ext", "get_counter_metrics"}
      [] kind = "c" /\ fn = "inc"    -> {"get_plus_counter", "get_plus_counter_ext",
                                         "post_counter"}
      [] kind = "g" /\ fn = "create" -> {"new_gauge"}
      [] kind = "g" /\ fn = "get"    -> {"get_gauge", "get_gauge_ext", "get_gauge_metrics"}
      [] kind = "g" /\ fn = "inc"    -> {"get_plus_gauge", "get_plus_gauge_ext", "post_gauge"}
      [] kind = "g" /\ fn = "dec"    -> {"get_minus_gauge", "get_minus_gauge_ext",
                                         "post_minus_gauge"}
      [] fn = "total"                -> {"get_total"}
      [] fn = "highest"              -> {"get_highest"}
      [] OTHER                       -> {}

ExtsOf(h) == IF h \in ExtHandlers THEN Exts ELSE {""}

\* What handler h answers with the result `o` of its store call on r.
Answer(h, ext, r, o) ==
    CASE h \in {"new_counter", "new_gauge"} ->
            IF o.ok THEN SeeOther(r.kind, r.id, r.id) ELSE Empty(500)
      [] h \in {"get_counter", "get_gauge"} ->
            IF o.ok THEN as_format(o.val, "txt") ELSE Empty(404)
      [] h \in {"get_counter_ext", "get_gauge_ext"} ->
            IF o.ok THEN as_format(o.val, ext) ELSE Empty(404)
      [] h \in {"get_counter_metrics", "get_gauge_metrics"} ->
            IF o.ok THEN as_openmetrics(r.kind, r.id, o.val) ELSE Empty(404)
      [] h \in {"get_plus_counter", "get_plus_gauge", "get_minus_gauge",
                "post_minus_gauge"} ->
            IF o.ok THEN SeeOther(r.kind, r.id, Decimal(o.val)) ELSE Empty(404)
      [] h \in {"post_counter", "post_gauge"} ->
            IF o.ok THEN SeeOther(r.kind, r.id, Decimal(o.val)) ELSE Empty(500)
      [] h \in {"get_plus_counter_ext", "get_plus_gauge_ext", "get_minus_gauge_ext"} ->
            IF o.ok THEN as_format(o.val, ext) ELSE Empty(404)
      [] h \in {"get_total", "get_highest"} ->
            IF o.ok THEN Response(200, "", Decimal(o.val), <<>>) ELSE Empty(500)

\* A completed request: the handler, its path, the store call, the answer,
\* and the value the row's last caller was given before this one.
Done(h, ext, r, o, resp, prev) ==
    [h |-> h, ext |-> ext, req |-> r, out |-> o, resp |-> resp, prev |-> prev]

NoDone == Done("", "", NoReq, Err(""), NoResp, 0)

\* incs[k][id] once a decrement was called on the row, or when the row was
\* there at the start with a value other than 0.
Tainted == 0 - 1

\* The tables the database file can hold when the server starts: rows that
\* earlier runs left, with distinct identifiers and rowids 1..n.
InitTables ==
    UNION {{{[id |-> Cardinality({u \in S : u[1] <= t[1]}), nano_id |-> t, value |-> f[t],
              updated_at |-> 0]
               : t \in S} : f \in [S -> InitValues]} : S \in SUBSET GenIds}

InitValue(tbl, id) == IF Rows(tbl, id) = {} THEN 0 ELSE First(Rows(tbl, id)).value

\* No call of a pure function on its own.
NoArg == [fn |-> "", id |-> <<>>, value |-> 0, ext |-> ""]
NoRet == [fn |-> "", valid |-> FALSE, resp |-> NoResp]

Init ==
    /\ c \in InitTables
    /\ g \in InitTables
    /\ pool = PoolSize
    /\ pc = [p \in Procs |-> "idle"]
    /\ req = [p \in Procs |-> NoReq]
    /\ conns = [p \in Procs |-> 0]
    /\ last = NoDone
    /\ expect = [k \in Kinds |-> [id \in PathIds |-> InitValue(Table(k), id)]]
    /\ seen = expect
    /\ incs = [k \in Kinds |-> [id \in PathIds |->
                 IF InitValue(Table(k), id) = 0 THEN 0 ELSE Tainted]]
    /\ started = 0
    /\ now = 0
    /\ arg = NoArg
    /\ ret = NoRet

\* A request goes to a free worker task; the tasks are interchangeable, so
\* the model gives it to the first free one.
Free(p) == pc[p] = "idle" /\ \A q \in 1..(p - 1) : pc[q] # "idle"

\* Task p can take a request.
Ready(p) == Free(p) /\ started < MaxCalls

\* Task p's store call returns `o`: its frames drop their connections and the
\* handler answers.  `how` is the statement that produced the result.  The
\* handler reads its path again only here, so a request in flight is its store
\* call and the route it came by is named when it answers.
Return(p, r, o, how) ==
    LET pcs == [pc EXCEPT ![p] = "idle"]
        cs  == [conns EXCEPT ![p] = @ - Dropped(@)]
        log == o.ok /\ r.fn \in {"inc", "dec", "create"}
    IN  /\ pc' = pcs
        /\ conns' = cs
        /\ pool' = pool + Dropped(conns[p])
        /\ expect' = IF log
                     THEN [expect EXCEPT ![r.kind][r.id] =
                              IF how = "insert" THEN o.val ELSE @ + Delta(r.fn)]
                     ELSE expect
        /\ seen' = IF log THEN [seen EXCEPT ![r.kind][r.id] = o.val] ELSE seen
        /\ incs' = IF log /\ r.fn = "inc" /\ incs[r.kind][r.id] # Tainted
                   THEN [incs EXCEPT ![r.kind][r.id] = @ + 1]
                   ELSE incs
        /\ \E h \in Handlers(r.kind, r.fn) : \E ext \in ExtsOf(h) :
               last' = Done(h, ext, r, o, Answer(h, ext, r, o),
                            IF r.kind \in Kinds THEN seen[r.kind][r.id] ELSE 0)
        /\ req' = Track(pcs, cs, [req EXCEPT ![p] = NoReq])

\* A handler calls its store function, which calls pool.acquire().
Call(p, kind, fn, id) ==
    LET r   == [NoReq EXCEPT !.kind = kind, !.fn = fn, !.id = id, !.acq = 1,
                             !.existed = kind \in Kinds /\ HasRow(kind, id)]
        pcs == [pc EXCEPT ![p] = Await(FirstState(fn))]
        cs  == [conns EXCEPT ![p] = @ + Taken]
    IN  /\ started' = started + 1
        /\ pc' = pcs
        /\ conns' = cs
        /\ pool' = pool - Taken
        /\ req' = Track(pcs, cs, [req EXCEPT ![p] = r])
        /\ incs' = IF fn = "dec" THEN [incs EXCEPT ![kind][id] = Tainted] ELSE incs
        /\ last' = NoDone
        /\ UNCHANGED <<c, g, expect, seen, now, pure>>

\* if !valid_id(&path.0) { return HttpResponse::BadRequest().body("") }
Reject(p, h, kind, fn, id, ext) ==
    /\ started' = started + 1
    /\ last' = Done(h, ext, [NoReq EXCEPT !.kind = kind, !.fn = fn, !.id = id],
                    Err("InvalidIdentifier"), Empty(400), 0)
    /\ UNCHANGED <<c, g, pool, pc, req, conns, hist, now, pure>>

\* A handler of a route with an {id}
Route(p, h, kind, fn, id, ext) ==
    IF ~valid_id(id) THEN Reject(p, h, kind, fn, id, ext)
    ELSE Call(p, kind, fn, id)

(* -------------------------------------------------------------- handlers *)

new_counter(p) ==
    Ready(p) /\ \E id \in GenIds : Call(p, "c", "create", id)
get_counter(p) ==
    Ready(p) /\ \E id \in PathIds : Route(p, "get_counter", "c", "get", id, "")
get_plus_counter(p) ==
    Ready(p) /\ \E id \in PathIds : Route(p, "get_plus_counter", "c", "inc", id, "")
get_plus_counter_ext(p) ==
    Ready(p) /\ \E id \in PathIds, ext \in Exts : Route(p, "get_plus_counter_ext", "c", "inc", id, ext)
get_counter_ext(p) ==
    Ready(p) /\ \E id \in PathIds, ext \in Exts : Route(p, "get_counter_ext", "c", "get", id, ext)
get_counter_metrics(p) ==
    Ready(p) /\ \E id \in PathIds : Route(p, "get_counter_metrics", "c", "get", id, "")
post_counter(p) ==
    Ready(p) /\ \E id \in PathIds : Route(p, "post_counter", "c", "inc", id, "")

new_gauge(p) ==
    Ready(p) /\ \E id \in GenIds : Call(p, "g", "create", id)
get_gauge(p) ==
    Ready(p) /\ \E id \in PathIds : Route(p, "get_gauge", "g", "get", id, "")
get_minus_gauge(p) ==
    Ready(p) /\ \E id \in PathIds : Route(p, "get_minus_gauge", "g", "dec", id, "")
get_plus_gauge(p) ==
    Ready(p) /\ \E id \in PathIds : Route(p, "get_plus_gauge", "g", "inc", id, "")
get_minus_gauge_ext(p) ==
    Ready(p) /\ \E id \in PathIds, ext \in Exts : Route(p, "get_minus_gauge_ext", "g", "dec", id, ext)
get_plus_gauge_ext(p) ==
    Ready(p) /\ \E id \in PathIds, ext \in Exts : Route(p, "get_plus_gauge_ext", "g", "inc", id, ext)
get_gauge_ext(p) ==
    Ready(p) /\ \E id \in PathIds, ext \in Exts : Route(p, "get_gauge_ext", "g", "get", id, ext)
get_gauge_metrics(p) ==
    Ready(p) /\ \E id \in PathIds : Route(p, "get_gauge_metrics", "g", "get", id, "")
post_gauge(p) ==
    Ready(p) /\ \E id \in PathIds : Route(p, "post_gauge", "g", "inc", id, "")
post_minus_gauge(p) ==
    Ready(p) /\ \E id \in PathIds : Route(p, "post_minus_gauge", "g", "dec", id, "")

get_total(p) ==
    Ready(p) /\ Call(p, "", "total", <<>>)
get_highest(p) ==
    Ready(p) /\ Call(p, "", "highest", <<>>)

(* ----------------------------------------------------------- store calls *)

\* a waiting pool.acquire().await gets a connection that came back
acquire(p) ==
    LET pcs == [pc EXCEPT ![p] = NextState(pc[p])]
        cs  == [conns EXCEPT ![p] = @ + 1]
    IN  /\ pc[p] \in AcquireStates
        /\ pool > 0
        /\ pool' = pool - 1
        /\ pc' = pcs
        /\ conns' = cs
        /\ req' = Track(pcs, cs, req)
        /\ last' = NoDone
        /\ UNCHANGED <<c, g, hist, started, now, pure>>

\* pool.acquire().await returns Err(PoolTimedOut): the ? (or the else branch
\* of get) ends the store call
acquire_timeout(p) ==
    /\ pc[p] \in AcquireStates
    /\ Exhausted
    /\ Return(p, req[p], Err("PoolTimedOut"), "")
    /\ UNCHANGED <<c, g, started, now, pure>>

\* Counter::increment_or_create, Gauge::increment_or_create and
\* Gauge::decrement_or_create, from the UPDATE to the return or to the
\* acquire of create_with_id_and_value
update_returning(p) ==
    LET r   == [req[p] EXCEPT !.upd = @ + 1]
        tbl == Table(r.kind)
        res == Returning(tbl, r.id, Delta(r.fn))
        new == UpdateWhere(tbl, r.id, Delta(r.fn))
    IN  /\ pc[p] = "upsert_update"
        /\ IF r.kind = "c" THEN c' = new /\ g' = g ELSE g' = new /\ c' = c
        /\ IF res.some
           THEN Return(p, r, Ok(res.value), "update")
           ELSE LET pcs == [pc EXCEPT ![p] = Await("create_acquire")]
                    cs  == [conns EXCEPT ![p] = @ + Taken]
                    rq  == [r EXCEPT !.acq = @ + 1]
                IN  /\ pc' = pcs
                    /\ conns' = cs
                    /\ pool' = pool - Taken
                    /\ req' = Track(pcs, cs, [req EXCEPT ![p] = rq])
                    /\ last' = NoDone
                    /\ UNCHANGED hist
        /\ now' = IF c' # c \/ g' # g THEN CurrentTimestamp ELSE now
        /\ UNCHANGED <<started, pure>>

\* create_with_id_and_value, from the INSERT to the return
insert(p) ==
    LET r   == [req[p] EXCEPT !.ins = @ + 1]
        tbl == Table(r.kind)
        v   == CreateValue(r.fn)
    IN  /\ pc[p] = "create_insert"
        /\ IF UniqueViolation(tbl, r.id)
           THEN /\ UNCHANGED <<c, g>>
                /\ Return(p, r, Propagate(Err("Database")), "insert")
           ELSE /\ IF r.kind = "c"
                   THEN c' = InsertInto(tbl, r.id, v) /\ g' = g
                   ELSE g' = InsertInto(tbl, r.id, v) /\ c' = c
                /\ Return(p, r, Ok(v), "insert")
        /\ now' = IF c' # c \/ g' # g THEN CurrentTimestamp ELSE now
        /\ UNCHANGED <<started, pure>>

\* Counter::get and Gauge::get, from the SELECT to the return
select(p) ==
    LET r    == [req[p] EXCEPT !.sel = @ + 1]
        rows == Rows(Table(r.kind), r.id)
    IN  /\ pc[p] = "get_select"
        /\ Return(p, r, IF rows = {} THEN Err("RowNotFound") ELSE Ok(First(rows).value), "")
        /\ UNCHANGED <<c, g, started, now, pure>>

Min(S) == CHOOSE x \in S : \A y \in S : x <= y

\* ORDER BY value DESC LIMIT 1
Max(S) == CHOOSE x \in S : \A y \in S : y <= x

TotalCounters == Cardinality(c)

\* SELECT (SELECT count(id) FROM c) + (SELECT count(id) FROM g) as value
Total == Cardinality(c) + Cardinality(g)

HighestOrZero ==
    LET values == {r.value : r \in c \cup g}
    IN  IF values = {} THEN [ok |-> TRUE, val |-> 0, err |-> ""]
        ELSE [ok |-> TRUE, val |-> Max(values), err |-> ""]

\* SELECT value FROM c UNION SELECT value from g ORDER BY value DESC LIMIT 1,
\* read with fetch_one
Highest ==
    LET values == {r.value : r \in c \cup g}
    IN  IF values = {} THEN Err("RowNotFound") ELSE Ok(Max(values))

\* get_total and get_highest, from the SELECT to the response
aggregate(p) ==
    LET r == [req[p] EXCEPT !.sel = @ + 1]
    IN  /\ pc[p] = "agg_select"
        /\ Return(p, r, IF r.fn = "total" THEN Ok(Total) ELSE Highest, "")
        /\ UNCHANGED <<c, g, started, now, pure>>

Next ==
    \E p \in Procs :
        \/ new_counter(p)
        \/ get_counter(p)
        \/ get_plus_counter(p)
        \/ get_plus_counter_ext(p)
        \/ get_counter_ext(p)
        \/ get_counter_metrics(p)
        \/ post_counter(p)
        \/ new_gauge(p)
        \/ get_gauge(p)
        \/ get_minus_gauge(p)
        \/ get_plus_gauge(p)
        \/ get_minus_gauge_ext(p)
        \/ get_plus_gauge_ext(p)
        \/ get_gauge_ext(p)
        \/ get_gauge_metrics(p)
        \/ post_gauge(p)
        \/ post_minus_gauge(p)
        \/ get_total(p)
        \/ get_highest(p)
        \/ acquire(p)
        \/ acquire_timeout(p)
        \/ update_returning(p)
        \/ insert(p)
        \/ select(p)
        \/ aggregate(p)

Spec == Init /\ [][Next]_vars

\* The steps of the request task p is serving.
Step(p) ==
    \/ acquire(p)
    \/ acquire_timeout(p)
    \/ update_returning(p)
    \/ insert(p)
    \/ select(p)
    \/ aggregate(p)

\* The runtime polls every task that can run, the database answers every
\* statement and an acquire that cannot be served times out.
FairSpec == Spec /\ \A p \in Procs : WF_vars(Step(p))

(* -------------------------------------------------------- pure functions *)

\* The length of the short identifiers valid_id is called with.
MaxLen == 3

\* The magnitude of the values as_format is called with.
MaxValue == 3

\* Bytes on both sides of the ASCII limit.
Bytes == {97, 127, 128, 195}

Filled(n, b) == [i \in 1..n |-> b]

\* The identifiers valid_id is called with: every short string over Bytes,
\* and strings around the length limit.
IdInputs ==
    UNION {[1..n -> Bytes] : n \in 0..MaxLen}
    \cup {Filled(n, b) : n \in {MaxIdLen - 1, MaxIdLen, MaxIdLen + 1}, b \in {97, 128}}

\* The tags as_format is called with: the six it knows, and others.
FormatTags == {"txt", "json", "png", "jpg", "gif", "svg", "zip", "TXT", ""}

PureInputs ==
    {[NoArg EXCEPT !.fn = "valid_id", !.id = id] : id \in IdInputs}
    \cup {[NoArg EXCEPT !.fn = "as_format", !.value = v, !.ext = e] :
             v \in (0 - MaxValue)..MaxValue, e \in FormatTags}

PureInit ==
    /\ c = {}
    /\ g = {}
    /\ pool = PoolSize
    /\ pc = [p \in Procs |-> "idle"]
    /\ req = [p \in Procs |-> NoReq]
    /\ conns = [p \in Procs |-> 0]
    /\ last = NoDone
    /\ expect = [k \in Kinds |-> [id \in PathIds |-> 0]]
    /\ seen = expect
    /\ incs = expect
    /\ started = 0
    /\ now = 0
    /\ arg \in PureInputs
    /\ ret = NoRet

\* Counter::valid_id(arg.id)
call_valid_id ==
    /\ arg.fn = "valid_id"
    /\ ret = NoRet
    /\ ret' = [NoRet EXCEPT !.fn = "valid_id", !.valid = valid_id(arg.id)]
    /\ UNCHANGED <<c, g, pool, pc, req, conns, last, hist, started, now, arg>>

\* Counter::new(id, arg.value).as_format(arg.ext)
call_as_format ==
    /\ arg.fn = "as_format"
    /\ ret = NoRet
    /\ ret' = [NoRet EXCEPT !.fn = "as_format", !.resp = as_format(arg.value, arg.ext)]
    /\ UNCHANGED <<c, g, pool, pc, req, conns, last, hist, started, now, arg>>

PureNext == call_valid_id \/ call_as_format

PureSpec == PureInit /\ [][PureNext]_vars

(* ---------------------------------------------------------------- claims *)

Upsert == {"inc", "dec"}

Value(kind, id) == First(Rows(Table(kind), id)).value

Idle == \A p \in Procs : pc[p] = "idle"

\* A request has just completed, and it called one of these store functions.
Completed(fns) == last.h # "" /\ last.req.acq > 0 /\ last.req.fn \in fns

RECURSIVE Held(_)
Held(S) == IF S = {} THEN 0
           ELSE LET p == CHOOSE q \in S : TRUE IN conns[p] + Held(S \ {p})

\* C1: increments and decrements of a row that exists are never lost: the row
\* holds the value it started with plus the deltas of the calls that returned
\* Ok, and a call on a row that existed when it was made returns Ok (unless,
\* while it ran, another task held a connection and waited for a second one).
C1_NoLostUpdate ==
    /\ \A k \in Kinds, id \in PathIds : HasRow(k, id) => Value(k, id) = expect[k][id]
    /\ Completed(Upsert) /\ last.req.existed /\ ~last.req.raced => last.out.ok

\* Two increments of a row holding 7 overlapped, both returned, the row holds 9.
C1_Witness ==
    /\ Completed({"inc"}) /\ last.req.existed /\ last.req.shared /\ last.out.ok
    /\ Idle /\ started = 2
    /\ Value(last.req.kind, last.req.id) = 9

\* C2: every Ok increment of a row that exists returns the row's value after
\* it, which is one more than the value the row's previous caller was given:
\* the values concurrent callers get are distinct and consecutive.
C2_DistinctReturns ==
    Completed({"inc"}) /\ last.req.existed /\ last.out.ok =>
        /\ last.out.val = last.prev + 1
        /\ last.out.val = Value(last.req.kind, last.req.id)

\* The second of two overlapping increments of a row holding 7 got 9 after
\* the first got 8.
C2_Witness ==
    /\ Completed({"inc"}) /\ last.req.existed /\ last.req.shared
    /\ last.out.ok /\ last.prev = 8 /\ last.out.val = 9

\* C3: every store call that has started returns, and it issues at most one
\* UPDATE and at most one INSERT.
C3_Terminates ==
    /\ [](\A p \in Procs : req[p].upd <= 1 /\ req[p].ins <= 1)
    /\ [](last.req.upd <= 1 /\ last.req.ins <= 1)
    /\ \A p \in Procs : (pc[p] # "idle") ~> (pc[p] = "idle")

\* A call that missed its UPDATE returned an error from the acquire inside
\* create_with_id_and_value.
C3_Witness ==
    /\ Completed(Upsert) /\ last.req.upd = 1 /\ last.req.acq = 2 /\ last.req.ins = 0
    /\ last.out.err = "PoolTimedOut"

\* C4: the connections checked out of the pool are those the calls in
\* progress hold; a task that serves no request holds none, and with no
\* request in progress every connection is idle.
C4_ConnectionsReleased ==
    /\ PoolSize - pool = Held(Procs)
    /\ \A p \in Procs : pc[p] = "idle" => conns[p] = 0
    /\ \A p \in Procs : conns[p] >= 0
    /\ Idle => pool = PoolSize

\* The INSERT of a call that missed its UPDATE failed, and every connection
\* is back.
C4_Witness ==
    /\ Completed(Upsert) /\ last.req.upd = 1 /\ last.req.ins = 1 /\ ~last.out.ok
    /\ Idle /\ pool = PoolSize

\* C5: on a row that was absent or 0 and was never decremented, the i-th Ok
\* increment returns i, and an increment that no other request on the row
\* overlaps returns Ok; the handlers that answer 303 send that number.
C5_IncrementSequence ==
    Completed({"inc"}) =>
        /\ ~last.req.shared /\ ~last.req.raced => last.out.ok
        /\ last.out.ok /\ incs[last.req.kind][last.req.id] # Tainted =>
              /\ last.out.val = incs[last.req.kind][last.req.id]
              /\ last.resp.status = 303 => last.resp.body = Decimal(last.out.val)

\* The second increment of a row that was absent or 0 returned 2.
C5_Witness ==
    /\ Completed({"inc"}) /\ ~last.req.shared /\ last.out.ok
    /\ incs[last.req.kind][last.req.id] = 2 /\ last.out.val = 2
    /\ last.resp.status = 303

\* C6: a decrement of a Gauge identifier that has no row inserts the row
\* with value 1 and returns 1.
C6_FirstDecrementIsOne ==
    Completed({"dec"}) /\ last.req.ins = 1 /\ last.out.ok =>
        /\ last.out.val = 1
        /\ Value("g", last.req.id) = 1
        /\ last.resp.status = 303 => last.resp.body = <<49>>

C6_Witness ==
    /\ Completed({"dec"}) /\ ~last.req.existed /\ last.req.ins = 1 /\ last.out.ok
    /\ last.h = "get_minus_gauge"

\* C7: a *_or_create call whose UPDATE found no row inserts the row with the
\* call's delta as its value, and returns it.
C7_InsertsDelta ==
    Completed(Upsert) /\ last.req.ins = 1 /\ last.out.ok =>
        /\ last.out.val = Delta(last.req.fn)
        /\ Value(last.req.kind, last.req.id) = Delta(last.req.fn)

C9_DuplicateInsertFails ==
    [][\A p \in Procs :
          pc[p] = "create_insert" /\ HasRow(req[p].kind, req[p].id) /\ pc'[p] = "idle" =>
             /\ ~last'.out.ok /\ last'.out.err = "Database"
             /\ last'.resp.status \in {404, 500} /\ last'.resp.body = NoBody
             /\ last'.req.upd = req[p].upd
             /\ c' = c /\ g' = g]_vars

\* POST /c answered 500 when the generated identifier had a row, which still
\* holds 7.
C9_Witness ==
    /\ last.h = "new_counter" /\ last.out.err = "Database" /\ last.resp.status = 500
    /\ Value("c", last.req.id) = 7

\* An identifier validate rejects: empty, 255 bytes or more, or not ASCII.
BadId(id) == id = <<>> \/ Len(id) >= 255 \/ \E i \in 1..Len(id) : id[i] >= 128

\* C10: a request whose identifier is not valid is answered 400 with an empty
\* body; it acquires no connection and issues no statement, and the step
\* that answers it leaves the tables and the pool as they were.
C10_InvalidIdRejected ==
    [][last'.h # "" /\ BadId(last'.req.id) /\ last'.req.kind \in Kinds =>
          /\ last'.resp = Empty(400)
          /\ last'.req.acq = 0 /\ last'.req.upd = 0
          /\ last'.req.ins = 0 /\ last'.req.sel = 0
          /\ c' = c /\ g' = g /\ pool' = pool /\ conns' = conns /\ pc' = pc]_vars

C10_Witness ==
    /\ last.h = "post_minus_gauge" /\ BadId(last.req.id) /\ last.resp.status = 400
    /\ g # {}

\* C11: valid_id accepts an identifier exactly when it is non-empty, shorter
\* than 255 bytes and all of its bytes are ASCII.
C11_ValidIdExact ==
    ret.fn = "valid_id" =>
        (ret.valid <=> /\ Len(arg.id) > 0
                       /\ Len(arg.id) < 255
                       /\ \A i \in 1..Len(arg.id) : arg.id[i] <= 127)

\* valid_id rejected a string of 255 ASCII bytes.
C11_Witness ==
    /\ ret.fn = "valid_id" /\ Len(arg.id) = 255 /\ arg.id[1] = 97 /\ ~ret.valid

\* C19: as_format answers 200 for txt, json, png, jpg, gif and svg, and 404
\* with an empty body for every other tag, whatever the value.
C19_UnknownFormat ==
    ret.fn = "as_format" =>
        IF arg.ext \in {"txt", "json", "png", "jpg", "gif", "svg"}
        THEN ret.resp.status = 200
        ELSE /\ ret.resp.status = 404 /\ ret.resp.body = <<>>
             /\ ret.resp.ctype = "" /\ ret.resp.location = <<>>

\* as_format answered 404 for the tag zip on an entity with a negative value.
C19_Witness ==
    /\ ret.fn = "as_format" /\ arg.ext = "zip" /\ arg.value < 0
    /\ ret.resp.status = 404

\* C12: GET /_total answers with the number of rows of table c plus the
\* number of rows of table g, whatever values the rows hold.
C12_TotalCountsRows ==
    last.h = "get_total" /\ last.out.ok =>
        /\ last.out.val = Cardinality(c) + Cardinality(g)
        /\ last.resp.status = 200
        /\ last.resp.body = Decimal(Cardinality(c) + Cardinality(g))

\* _total answered 2 while a Counter row held 7 and a Gauge row existed.
C12_Witness ==
    /\ last.h = "get_total" /\ last.out.val = 2 /\ last.resp.body = <<50>>
    /\ \E r \in c : r.value = 7
    /\ g # {}

\* C13: while some row exists, GET /_highest answers with the greatest value
\* of the rows of both tables (unless, while it ran, another task held a
\* connection and waited for a second one).
C13_HighestIsMax ==
    last.h = "get_highest" /\ c \cup g # {} =>
        /\ ~last.req.raced => last.out.ok
        /\ last.out.ok =>
              /\ \A r \in c \cup g : r.value <= last.out.val
              /\ \E r \in c \cup g : r.value = last.out.val
              /\ last.resp.status = 200
              /\ last.resp.body = Decimal(last.out.val)

\* _highest answered -1 when the only row was a Gauge decremented below 0.
C13_Witness ==
    /\ last.h = "get_highest" /\ last.out.ok /\ last.out.val = 0 - 1
    /\ last.resp.body = <<45, 49>>
    /\ c = {} /\ g # {}

\* C14: with no row in either table, GET /_highest answers 500 with an empty
\* body; it reports no value.
C14_HighestOnEmptyFails ==
    last.h = "get_highest" /\ c = {} /\ g = {} =>
        /\ ~last.out.ok
        /\ last.resp.status = 500
        /\ last.resp.body = <<>>

\* The SELECT of _highest found no row.
C14_Witness ==
    /\ last.h = "get_highest" /\ c = {} /\ g = {}
    /\ last.out.err = "RowNotFound" /\ last.resp.status = 500

\* C15: a step of a Counter call leaves table g as it was and a step of a
\* Gauge call leaves table c as it was; the tables change in no other step;
\* and a fetch answers from the table of its own kind only.
C15_SeparateNamespaces ==
    /\ [][\A p \in Procs : pc'[p] # pc[p] =>
              /\ req[p].kind = "c" => g' = g
              /\ req[p].kind = "g" => c' = c]_vars
    /\ [][c' # c \/ g' # g =>
              \E p \in Procs : pc'[p] # pc[p] /\ req[p].kind \in {"c", "g"}]_vars
    /\ [](last.h # "" /\ last.req.fn = "get" /\ last.req.sel = 1 =>
              /\ last.req.kind = "c" =>
                    (last.out.ok <=> \E r \in c : r.nano_id = last.req.id
                                                  /\ r.value = last.out.val)
              /\ last.req.kind = "g" =>
                    (last.out.ok <=> \E r \in g : r.nano_id = last.req.id
                                                  /\ r.value = last.out.val))

\* An increment took the Counter row of an identifier from 7 to 8 while the
\* Gauge row of the same identifier stayed at 0.
C15_Witness ==
    /\ last.h = "get_plus_counter" /\ last.out.ok /\ last.out.val = 8
    /\ \E r \in c : r.nano_id = last.req.id /\ r.value = 8
    /\ \E r \in g : r.nano_id = last.req.id /\ r.value = 0 /\ r.updated_at = 0

\* The rows of `new` against those of `old`: a row whose value changed, and a
\* row that is new, carry the time of this step's write; every other row
\* keeps its updated_at.
Together(old, new) ==
    \A n \in new :
        IF \E o \in old : o.id = n.id
        THEN LET o == CHOOSE x \in old : x.id = n.id
             IN  IF n.value # o.value
                 THEN n.updated_at = now' /\ now' > now
                 ELSE n.updated_at = o.updated_at
        ELSE n.updated_at = now' /\ now' > now

\* C16: a row's value and its updated_at change in the same step: the step
\* that changes a value or inserts a row sets the row's updated_at to the
\* time of that write, no other step changes updated_at, and no updated_at is
\* later than the clock.
C16_ValueAndTimeTogether ==
    /\ [][Together(c, c') /\ Together(g, g')]_vars
    /\ [](\A r \in c \cup g : r.updated_at <= now)

\* The second write of a behaviour was an UPDATE that took a row from 7 to 8
\* and stamped it with the time of that write.
C16_Witness ==
    /\ Completed({"inc"}) /\ last.req.existed /\ last.out.ok /\ now = 2
    /\ \E r \in Table(last.req.kind) :
           r.nano_id = last.req.id /\ r.value = 8 /\ r.updated_at = 2

\* C17: no step removes a Counter row or lowers its value, and a step that
\* changes it raises it by exactly 1; an Ok increment of a Counter returns the
\* row's value, one more than before (1 when it inserted the row); and no
\* Counter call is a decrement.
C17_CounterIncrementOnly ==
    /\ [][\A o \in c : \E n \in c' :
              /\ n.id = o.id /\ n.nano_id = o.nano_id
              /\ n.value = o.value \/ n.value = o.value + 1]_vars
    /\ [][last'.h \in {"get_plus_counter", "get_plus_counter_ext", "post_counter"}
           /\ last'.out.ok =>
              \E n \in c' :
                 /\ n.nano_id = last'.req.id /\ n.value = last'.out.val
                 /\ IF last'.req.ins = 0
                    THEN \E o \in c : o.id = n.id /\ n.value = o.value + 1
                    ELSE n.value = 1 /\ \A o \in c : o.nano_id # n.nano_id]_vars
    /\ [](\A p \in Procs : req[p].kind = "c" => req[p].fn \in {"create", "get", "inc"})

\* POST /c/{id} took a Counter row from 7 to 8.
C17_Witness ==
    /\ last.h = "post_counter" /\ last.out.ok /\ last.prev = 7 /\ last.out.val = 8
    /\ \E r \in c : r.nano_id = last.req.id /\ r.value = 8

\* C18: a fetch of an identifier with no row in its kind's table returns
\* None, the GET routes answer 404 with an empty body, and no step of a
\* fetch changes a table, so the row is still absent afterwards.
C18_FetchNotFound ==
    /\ [](last.h # "" /\ last.req.fn = "get" /\ last.req.sel = 1
           /\ (\A r \in (IF last.req.kind = "c" THEN c ELSE g) : r.nano_id # last.req.id) =>
              /\ ~last.out.ok
              /\ last.resp.status = 404
              /\ last.resp.body = <<>>)
    /\ [][\A p \in Procs :
              pc'[p] # pc[p] /\ (req[p].fn = "get" \/ req'[p].fn = "get") =>
                 c' = c /\ g' = g]_vars

\* The second request of a behaviour without a write was a fetch of a Counter
\* that table c does not hold; it was answered 404.
C18_Witness ==
    /\ last.h = "get_counter" /\ last.out.err = "RowNotFound" /\ last.resp.status = 404
    /\ started = 2 /\ now = 0 /\ c = {}

\* C20: the step in which a request is answered 400, 404 or 500 leaves both
\* tables as they were.
C20_FailureLeavesStore ==
    [][last'.h # "" /\ last'.resp.status \in {400, 404, 500} =>
          c' = c /\ g' = g]_vars

\* C21: for a Counter identifier whose row was absent or held 0 at the start,
\* once every call has returned the row's value is the number of increments
\* that returned Ok (with no row, none did), and the step in which a Counter
\* increment returns an error leaves table c as it was.
C21_ValueCountsSuccesses ==
    /\ [](Idle =>
             \A id \in PathIds :
                incs["c"][id] # Tainted =>
                   IF \E r \in c : r.nano_id = id
                   THEN \A r \in c : r.nano_id = id => r.value = incs["c"][id]
                   ELSE incs["c"][id] = 0)
    /\ [][last'.h # "" /\ last'.req.kind = "c" /\ last'.req.fn = "inc"
           /\ ~last'.out.ok => c' = c]_vars

\* Two first increments of a Counter identifier overlapped and both missed
\* their UPDATE; one returned an error, the other inserted the row and
\* returned 1, and the row holds 1.
C21_Witness ==
    /\ Idle /\ started = 2
    /\ Completed({"inc"}) /\ last.req.kind = "c"
    /\ ~last.req.existed /\ last.req.shared /\ last.req.raced
    /\ last.req.ins = 1 /\ last.out.ok /\ last.out.val = 1
    /\ incs["c"][last.req.id] = 1
    /\ \E r \in c : r.nano_id = last.req.id /\ r.value = 1

====
